---- MODULE Spec2Model ----
(***************************************************************************)
(* Model of services/vector_store/ingest.py: the GemVectorStore            *)
(* coordinator (FAISS index held in memory + faiss.index file + the        *)
(* sqlite table gems in metadata.db), the module-level search_gems helper, *)
(* the search command of the command line and process restarts on one      *)
(* store directory; of services/llm_gateway/main.py and of the two mock    *)
(* API servers services/simple_api.py and services/mock_api.py (further    *)
(* down).                                                                  *)
(*                                                                         *)
(* Construction (__init__ / _init_database) is taken to succeed, as the    *)
(* test-suite's setup_method takes it to; the table is the one declared by *)
(* the CREATE TABLE statement.  (With the standard sqlite3 module the      *)
(* execute call of lines 81-84 holds two statements and raises "You can    *)
(* only execute one statement at a time"; the table exists by then, the    *)
(* two indexes do not.  The model describes the store as it behaves once   *)
(* an instance exists.)  The pass-through columns homepage,                *)
(* source_code_uri, download_count and last_updated are handled by the     *)
(* code exactly like version and stars and are left out.                   *)
(***************************************************************************)
EXTENDS Integers, Sequences, FiniteSets, TLC

(***************************************************************************)
(* Bounds of the model.                                                    *)
(***************************************************************************)
MaxVectors == 2      \* adds are enabled while the in-memory index is smaller
MaxSeq == 2          \* adds are enabled while sqlite_sequence is smaller
MaxK == 2            \* search is called with k in 1..MaxK
MaxExcess == 2       \* readmes are up to this many characters over the budget
MaxPosts == 2        \* gems a mock server is sent on top of those it starts with

(***************************************************************************)
(* Program constants.                                                      *)
(***************************************************************************)
ReadmeBudget == 2000 \* readme[:2000]
Scale == 100         \* fixed-point unit of the float32 components: 1.0 = Scale

(***************************************************************************)
(* Inputs.                                                                 *)
(***************************************************************************)
\* the calls add_gem(gem_data, readme_content) the model makes
AddCalls ==
    { [gem_data |-> [name |-> "alpha", description |-> "web framework",
                     version |-> "1.0"],
       readme_content |-> ""],
      [gem_data |-> [name |-> "beta", description |-> "testing library",
                     keywords |-> <<"test", "web">>, stars |-> 7],
       readme_content |-> "wiki"],
      [gem_data |-> [name |-> "alpha", description |-> "testing tool",
                     keywords |-> <<"tdd">>],
       readme_content |-> ""] }

\* Python's None, written as a reserved string that no gem is named
None == "<None>"

\* bool(x) of a value that is a str or None
Truthy(x) == x # None /\ x # ""

\* calls with a record that has no usable name: key absent, and name None
MalformedCalls ==
    { [gem_data |-> [description |-> "web framework"], readme_content |-> ""],
      [gem_data |-> [name |-> None, description |-> "testing library"],
       readme_content |-> ""] }

\* a call with a record that yields the empty embedding text
EmptyCalls == { [gem_data |-> [version |-> "1.0"], readme_content |-> ""] }

\* the query without a character
EmptyQueries == { "" }

AllCalls == AddCalls \cup MalformedCalls \cup EmptyCalls

Queries == { "framework", "testing" }

\* the query of the specifications that search between other steps
FewQueries == { "framework" }

\* the embedding_model argument of the constructor and the dimension
\* get_sentence_embedding_dimension() reports for it
DefaultModel == "all-MiniLM-L6-v2"
OtherModels == { "all-mpnet-base-v2" }
DefaultDimension == 384
ModelDimension(model_name) ==
    IF model_name = DefaultModel THEN DefaultDimension ELSE 2 * DefaultDimension

Ks == 1..MaxK

\* dict.get(key, default)
Get(d, key, default) == IF key \in DOMAIN d THEN d[key] ELSE default

(***************************************************************************)
(* Text construction.                                                      *)
(***************************************************************************)
RECURSIVE Join(_, _)
\* sep.join(items)
Join(sep, items) ==
    IF items = <<>> THEN ""
    ELSE IF Len(items) = 1 THEN items[1]
    ELSE items[1] \o sep \o Join(sep, Tail(items))

\* _create_embedding_text taking the whole readme whatever its length
CreateEmbeddingTextWithoutTruncation(name, description, readme, keywords) ==
    LET p1 == IF Truthy(name) THEN <<"Gem: " \o name>> ELSE <<>>
        p2 == IF description # "" THEN <<"Description: " \o description>> ELSE <<>>
        p3 == IF keywords # <<>>
              THEN <<"Keywords: " \o Join(", ", keywords)>> ELSE <<>>
        p4 == IF readme # "" THEN <<"Documentation: " \o readme>> ELSE <<>>
    IN Join("\n", p1 \o p2 \o p3 \o p4)

\* _create_embedding_text
CreateEmbeddingText(name, description, readme, keywords) ==
    LET p1 == IF Truthy(name) THEN <<"Gem: " \o name>> ELSE <<>>
        p2 == IF description # "" THEN <<"Description: " \o description>> ELSE <<>>
        p3 == IF keywords # <<>>
              THEN <<"Keywords: " \o Join(", ", keywords)>> ELSE <<>>
        readme_truncated == IF Len(readme) > ReadmeBudget
                            THEN SubSeq(readme, 1, ReadmeBudget) ELSE readme
        p4 == IF readme # "" THEN <<"Documentation: " \o readme_truncated>> ELSE <<>>
    IN Join("\n", p1 \o p2 \o p3 \o p4)

(***************************************************************************)
(* json.dumps / json.loads on lists of plain strings.                      *)
(***************************************************************************)
Quote(s) == "\"" \o s \o "\""

RECURSIVE QuoteAll(_)
QuoteAll(items) ==
    IF items = <<>> THEN <<>> ELSE <<Quote(items[1])>> \o QuoteAll(Tail(items))

\* the keywords stored as ",".join(keywords)
DumpKeywordsJoined(keywords) == Join(",", keywords)

\* json.dumps(keywords) if keywords else "[]"
DumpKeywords(keywords) ==
    IF keywords # <<>> THEN "[" \o Join(", ", QuoteAll(keywords)) \o "]" ELSE "[]"

RECURSIVE ParseItems(_, _, _, _)
\* scanner of json.loads over the characters of a list of strings:
\* inside tells whether position i is within a quoted string, cur is the
\* string read so far
ParseItems(s, i, inside, cur) ==
    IF i > Len(s) THEN <<>>
    ELSE LET c == SubSeq(s, i, i)
         IN IF inside
            THEN IF c = "\"" THEN <<cur>> \o ParseItems(s, i + 1, FALSE, "")
                 ELSE ParseItems(s, i + 1, TRUE, cur \o c)
            ELSE IF c = "\"" THEN ParseItems(s, i + 1, TRUE, "")
                 ELSE ParseItems(s, i + 1, FALSE, "")

\* json.loads(row[2]) if row[2] else []
LoadKeywords(text) == IF text # "" THEN ParseItems(text, 1, FALSE, "") ELSE <<>>

(***************************************************************************)
(* Embedding: SentenceTransformer.encode is a deterministic map from text  *)
(* to a raw vector; here a two-dimensional character-count embedding.      *)
(***************************************************************************)
RECURSIVE CountChar(_, _, _)
CountChar(text, c, i) ==
    IF i > Len(text) THEN 0
    ELSE (IF SubSeq(text, i, i) = c THEN 1 ELSE 0) + CountChar(text, c, i + 1)

\* self.embedding_model.encode([text]); the encoder is a library of its own
\* and the empty text stands for the texts it maps to the zero vector
Encode(text) ==
    IF text = "" THEN << 0, 0 >>
    ELSE << 1 + CountChar(text, "w", 1), 1 + CountChar(text, "t", 1) >>

RECURSIVE ISqrtIn(_, _, _)
\* largest r in lo..hi with r * r <= n, by bisection
ISqrtIn(n, lo, hi) ==
    IF lo >= hi THEN lo
    ELSE LET mid == (lo + hi + 1) \div 2
         IN IF mid * mid <= n THEN ISqrtIn(n, mid, hi) ELSE ISqrtIn(n, lo, mid - 1)

\* np.linalg.norm, in fixed point
Norm(v) == ISqrtIn((v[1] * v[1] + v[2] * v[2]) * Scale * Scale, 0, (v[1] + v[2]) * Scale)

\* float32 nan, the value of 0.0 / 0.0: a code no component and no inner
\* product of numbers has
NaN == 0 - 1

\* embedding / np.linalg.norm(embedding): numpy divides by a zero norm with
\* a warning and the quotient is nan
Normalize(v) ==
    IF Norm(v) = 0 THEN << NaN, NaN >>
    ELSE << (v[1] * Scale * Scale) \div Norm(v),
            (v[2] * Scale * Scale) \div Norm(v) >>

Embed(text) == Normalize(Encode(text))

\* inner product of IndexFlatIP of two vectors of numbers
Dot(a, b) == a[1] * b[1] + a[2] * b[2]

\* the entry IndexFlatIP.search reports where it has no hit
NoHit == [score |-> 0 - Scale * Scale * Scale, idx |-> -1]

RECURSIVE TopK(_, _, _, _)
\* index.search(query, k): k entries by descending inner product, the earlier
\* position first among equal scores, filled up with NoHit entries; the
\* product with a nan vector (nan in every component) is nan, compares
\* greater than nothing and is never reported;
\* taken holds the (1-based) slots already reported
TopK(vectors, query, k, taken) ==
    IF k = 0 THEN <<>>
    ELSE LET cand == IF query[1] = NaN THEN {}
                     ELSE {i \in (1..Len(vectors)) \ taken :
                              vectors[i][1] # NaN}
         IN IF cand = {}
            THEN <<NoHit>> \o TopK(vectors, query, k - 1, taken)
            ELSE LET best == CHOOSE i \in cand : \A j \in cand :
                                 \/ Dot(vectors[i], query) > Dot(vectors[j], query)
                                 \/ /\ Dot(vectors[i], query) = Dot(vectors[j], query)
                                    /\ i <= j
                 IN <<[score |-> Dot(vectors[best], query), idx |-> best - 1]>>
                    \o TopK(vectors, query, k - 1, taken \cup {best})

\* index.search asked for every vector instead of k
FaissSearchAll(vectors, query, k) == TopK(vectors, query, Len(vectors), {})

FaissSearch(vectors, query, k) == TopK(vectors, query, k, {})

(***************************************************************************)
(* The store.                                                              *)
(***************************************************************************)
VARIABLES
    HAS_DEPENDENCIES,  \* module flag set by the import block
    faiss_imported,    \* whether the name faiss got bound by the import block
    embedding_model_name, \* self.embedding_model_name
    embedding_model,   \* self.embedding_model is not None
    model_loads,       \* history: SentenceTransformer(...) calls of the instance
    dimension,         \* self.dimension
    index,             \* self.index: [open, vectors, d]; open = FALSE is None
    index_file,        \* faiss.index on disk: [exists, readable, vectors, d]
    gems,              \* committed rows of table gems in metadata.db
    metadata_db,       \* rows of table gems as self.metadata_db sees them
    sqlite_sequence,   \* AUTOINCREMENT counter of table gems
    pc,                \* position of the caller inside add_gem
    pending,           \* locals of the add_gem call in flight
    ret,               \* what the last call returned
    assigned,          \* history: vector ids given out by the successful adds
    added_names,       \* history: names of the successful adds
    persisted,         \* history: searches of the instance that last persisted
    ANTHROPIC_API_KEY, \* gateway: whether the environment variable was set
    gateway_response,  \* gateway: the request last served and its response
    text_input,        \* the arguments of the last _create_embedding_text call
    text_output,       \* what that call returned
    api_server,        \* mock API: which of the two servers is running
    MOCK_GEMS,         \* mock API: the module's list MOCK_GEMS
    api_response,      \* mock API: the request last handled and its response
    threads,           \* locals and position of each thread inside add_gem
    overlapped         \* history: two add_gem calls were in flight together

vars == << HAS_DEPENDENCIES, faiss_imported, embedding_model_name,
           embedding_model, model_loads, dimension, index, index_file, gems, metadata_db,
           sqlite_sequence, pc, pending, ret, assigned, added_names, persisted,
           ANTHROPIC_API_KEY, gateway_response, text_input, text_output,
           api_server, MOCK_GEMS, api_response, threads, overlapped >>

store_vars == << HAS_DEPENDENCIES, faiss_imported, embedding_model_name,
                 embedding_model, model_loads, dimension, index, index_file, gems,
                 metadata_db, sqlite_sequence, pc, pending, ret, assigned,
                 added_names, persisted >>

gateway_vars == << ANTHROPIC_API_KEY, gateway_response >>

text_vars == << text_input, text_output >>

api_vars == << api_server, MOCK_GEMS, api_response >>

thread_vars == << threads, overlapped >>

\* no request served yet
NoResponse == [endpoint |-> "", status |-> 0]

NoIndex == [open |-> FALSE, vectors |-> <<>>, d |-> 0]
NoFile == [exists |-> FALSE, readable |-> FALSE, vectors |-> <<>>, d |-> 0]
NoPending == [active |-> FALSE]

\* store_path of the instances: the directory all of them are opened on
StorePath == "vector_store"

\* the dict get_stats returns; NoStats where the call was another one
NoStats == [total_gems |-> 0, index_size |-> 0, dimension |-> 0, model |-> "",
            store_path |-> ""]

\* what a run of the command line left: its exit status, what it printed
\* before the results, whether it constructed a store and whether it loaded the model;
\* NoCli where the call was not a run of the command line
NoCli == [exit |-> -1, printed |-> "", opened |-> FALSE, loaded |-> FALSE]

\* the value of ret.  args are the arguments of the call, id is what add_gem
\* returned and results what a search returned; position and replaced record
\* which slot an add assigned and which slot the row it replaced had held
\* (-1: none), outcome which branch load_or_create_index took
Return(op, args, raised, id, results, position, replaced, outcome) ==
    [op |-> op, args |-> args, raised |-> raised, id |-> id,
     results |-> results, position |-> position, replaced |-> replaced,
     outcome |-> outcome, stats |-> NoStats, cli |-> NoCli]

NoArgs == [query |-> "", k |-> 0]

Returned(op) == Return(op, NoArgs, FALSE, 0, <<>>, -1, -1, "")
Raised(op) == Return(op, NoArgs, TRUE, 0, <<>>, -1, -1, "")
AddReturned(id, position, replaced) ==
    Return("add_gem", NoArgs, FALSE, id, <<>>, position, replaced, "")
SearchReturned(op, query, k, out) ==
    Return(op, [query |-> query, k |-> k], out.raised, 0, out.results, -1, -1, "")

\* _create_embedding_text was not called yet
NoInput == [name |-> None, description |-> "", readme |-> "", keywords |-> <<>>,
            called |-> FALSE]

\* the list MOCK_GEMS as the module of each mock server defines it; of the
\* keys of a gem only id, name and version are kept
InitialGems(server) ==
    IF server = "simple_api"
    THEN << [id |-> 1, name |-> "rails", version |-> "7.0.4"],
            [id |-> 2, name |-> "sinatra", version |-> "3.0.0"] >>
    ELSE << [id |-> 1, name |-> "rails", version |-> "7.0.4"],
            [id |-> 2, name |-> "sinatra", version |-> "3.0.0"],
            [id |-> 3, name |-> "devise", version |-> "4.9.0"] >>

\* no gem in a response
NoGem == [id |-> 0, name |-> "", version |-> ""]

\* no request handled yet.  A response is the status line and the body: the
\* gem or the error message in it, and what follows the object in a body
\* that is a list (0: the body is the object)
NoApiResponse == [method |-> "", gem_id |-> 0, status |-> 0, gem |-> NoGem,
                  error |-> "", then |-> 0]

\* the two threads that call add_gem on one instance
Threads == {"t1", "t2"}

\* a thread that is not inside add_gem
Outside == [at |-> "outside"]

NotPersisted == [phase |-> "none", names |-> <<>>]

\* the import block at module load: HAS_DEPENDENCIES is set only when all
\* three imports succeeded, faiss is bound as soon as the first one did
ImportOutcomes ==
    { [has |-> TRUE, faiss |-> TRUE], [has |-> FALSE, faiss |-> TRUE],
      [has |-> FALSE, faiss |-> FALSE] }

Init ==
    /\ \E o \in ImportOutcomes :
          /\ HAS_DEPENDENCIES = o.has
          /\ faiss_imported = o.faiss
    /\ embedding_model_name = DefaultModel
    /\ embedding_model = FALSE
    /\ model_loads = 0
    /\ dimension = DefaultDimension
    /\ index = NoIndex
    /\ index_file = NoFile
    /\ gems = {}
    /\ metadata_db = {}
    /\ sqlite_sequence = 0
    /\ pc = "idle"
    /\ pending = NoPending
    /\ ret = Returned("init")
    /\ assigned = <<>>
    /\ added_names = {}
    /\ persisted = NotPersisted
    /\ ANTHROPIC_API_KEY = FALSE
    /\ gateway_response = NoResponse
    /\ text_input = NoInput
    /\ text_output = ""
    /\ api_server = "simple_api"
    /\ MOCK_GEMS = InitialGems("simple_api")
    /\ api_response = NoApiResponse
    /\ threads = [t \in Threads |-> Outside]
    /\ overlapped = FALSE

(***************************************************************************)
(* load_or_create_index and load_embedding_model.                          *)
(***************************************************************************)
\* faiss.read_index taking whatever bytes the file holds
ReadIndexErrorIgnored(idx, file) == FALSE

\* faiss.read_index raises on a file it cannot read; it is called only when
\* self.index is None and the file exists
ReadIndexRaises(idx, file) == ~idx.open /\ file.exists /\ ~file.readable

\* load_or_create_index without the test `if self.index is None`
LoadedIndexAlways(idx, file, d) ==
    IF file.exists
    THEN [open |-> TRUE, vectors |-> file.vectors, d |-> file.d]
    ELSE [open |-> TRUE, vectors |-> <<>>, d |-> d]

\* the value of self.index after a load_or_create_index that did not raise:
\* the index of the file with the dimension the file has, or a new
\* IndexFlatIP(self.dimension)
LoadedIndex(idx, file, d) ==
    IF ~idx.open
    THEN IF file.exists
         THEN [open |-> TRUE, vectors |-> file.vectors, d |-> file.d]
         ELSE [open |-> TRUE, vectors |-> <<>>, d |-> d]
    ELSE idx

\* a save that leaves a file that is already there alone
WriteIndexOnce(idx, file) ==
    IF file.exists THEN file
    ELSE [exists |-> TRUE, readable |-> TRUE, vectors |-> idx.vectors, d |-> idx.d]

\* the file faiss.write_index leaves: the whole index, whatever was there
WriteIndex(idx, file) ==
    [exists |-> TRUE, readable |-> TRUE, vectors |-> idx.vectors, d |-> idx.d]

(***************************************************************************)
(* The table gems.                                                         *)
(***************************************************************************)
\* the row written with index.ntotal read after index.add
NewRowNumberedAfterAdd(id, gem_data, readme_content, vector_id) ==
    [id |-> id,
     name |-> Get(gem_data, "name", ""),
     description |-> Get(gem_data, "description", ""),
     readme_content |-> readme_content,
     keywords |-> DumpKeywords(Get(gem_data, "keywords", <<>>)),
     version |-> Get(gem_data, "version", ""),
     stars |-> Get(gem_data, "stars", 0),
     embedding_vector_id |-> vector_id + 1]

\* the row INSERT OR REPLACE writes
NewRow(id, gem_data, readme_content, vector_id) ==
    [id |-> id,
     name |-> Get(gem_data, "name", ""),
     description |-> Get(gem_data, "description", ""),
     readme_content |-> readme_content,
     keywords |-> DumpKeywords(Get(gem_data, "keywords", <<>>)),
     version |-> Get(gem_data, "version", ""),
     stars |-> Get(gem_data, "stars", 0),
     embedding_vector_id |-> vector_id]

\* the id of a table declared INTEGER PRIMARY KEY without AUTOINCREMENT: one
\* more than the largest id left once the row of that name is deleted
NextIdWithoutAutoincrement(seq, rows, name) ==
    LET left == { r.id : r \in { x \in rows : x.name # name } }
    IN IF left = {} THEN 1
       ELSE (CHOOSE i \in left : \A j \in left : i >= j) + 1

\* the id INSERT gives the new row of a table declared INTEGER PRIMARY KEY
\* AUTOINCREMENT: one more than the largest id the table ever held, which
\* sqlite_sequence records
NextId(seq, rows, name) == seq + 1

\* a commit that writes nothing
CommitMissing(disk, view) == disk

\* metadata_db.commit(): the rows the connection sees become the rows of
\* the file
Commit(disk, view) == view

\* INSERT OR REPLACE: the row that holds the UNIQUE name is deleted first
InsertOrReplace(rows, row) == {r \in rows : r.name # row.name} \cup {row}

\* rows of SELECT ... WHERE embedding_vector_id = ?
RowsAt(rows, idx) == {r \in rows : r.embedding_vector_id = idx}

\* cursor.fetchone() of a non-empty result: sqlite walks the table (or the
\* index on embedding_vector_id) in rowid order
FetchOne(rows) == CHOOSE r \in rows : \A o \in rows : r.id <= o.id

(***************************************************************************)
(* search.                                                                 *)
(***************************************************************************)
ResultOf(row, score, i) ==
    [name |-> row.name, description |-> row.description,
     keywords |-> LoadKeywords(row.keywords), version |-> row.version,
     stars |-> row.stars, similarity_score |-> score, rank |-> i + 1]

RECURSIVE CollectStopAtGap(_, _, _)
\* the loop leaving at the first hit that has no row (break for continue)
CollectStopAtGap(hits, i, rows) ==
    IF i >= Len(hits) THEN <<>>
    ELSE LET hit == hits[i + 1]
         IN IF hit.idx = -1 THEN CollectStopAtGap(hits, i + 1, rows)
            ELSE IF RowsAt(rows, hit.idx) # {}
                 THEN <<ResultOf(FetchOne(RowsAt(rows, hit.idx)), hit.score, i)>>
                      \o CollectStopAtGap(hits, i + 1, rows)
                 ELSE <<>>

RECURSIVE CollectPrepending(_, _, _)
\* the loop putting each result in front of the list (insert(0, ...))
CollectPrepending(hits, i, rows) ==
    IF i >= Len(hits) THEN <<>>
    ELSE LET hit == hits[i + 1]
         IN IF hit.idx = -1 THEN CollectPrepending(hits, i + 1, rows)
            ELSE IF RowsAt(rows, hit.idx) # {}
                 THEN CollectPrepending(hits, i + 1, rows)
                      \o <<ResultOf(FetchOne(RowsAt(rows, hit.idx)), hit.score, i)>>
                 ELSE CollectPrepending(hits, i + 1, rows)

RECURSIVE Collect(_, _, _)
\* the loop over enumerate(zip(scores[0], indices[0])); i is 0-based
Collect(hits, i, rows) ==
    IF i >= Len(hits) THEN <<>>
    ELSE LET hit == hits[i + 1]
         IN IF hit.idx = -1 THEN Collect(hits, i + 1, rows)
            ELSE IF RowsAt(rows, hit.idx) # {}
                 THEN <<ResultOf(FetchOne(RowsAt(rows, hit.idx)), hit.score, i)>>
                      \o Collect(hits, i + 1, rows)
                 ELSE Collect(hits, i + 1, rows)

\* an empty list, returned before anything is loaded
NoResults == [results |-> <<>>, raised |-> FALSE, loads |-> FALSE]

\* index.search / index.add assert that the vector has the index's dimension
DimensionError == [results |-> <<>>, raised |-> TRUE, loads |-> TRUE]

\* search without the HAS_DEPENDENCIES check
SearchOnWithoutCapabilityCheck(has_dependencies, idx, rows, query, k, d) ==
    IF ~idx.open \/ Len(idx.vectors) = 0 THEN NoResults
    ELSE IF idx.d # d THEN DimensionError
    ELSE [results |-> Collect(FaissSearch(idx.vectors, Embed(query), k), 0, rows),
          raised |-> FALSE, loads |-> TRUE]

\* search without the check of self.index: None has no attribute search
SearchOnWithoutIndexCheck(has_dependencies, idx, rows, query, k, d) ==
    IF ~has_dependencies THEN NoResults
    ELSE IF ~idx.open THEN [results |-> <<>>, raised |-> TRUE, loads |-> TRUE]
    ELSE IF idx.d # d THEN DimensionError
    ELSE [results |-> Collect(FaissSearch(idx.vectors, Embed(query), k), 0, rows),
          raised |-> FALSE, loads |-> TRUE]

\* GemVectorStore.search on an instance whose model has dimension d: what it
\* returns, whether it raises and whether it loads the embedding model
SearchOn(has_dependencies, idx, rows, query, k, d) ==
    IF ~has_dependencies THEN NoResults
    ELSE IF ~idx.open \/ Len(idx.vectors) = 0 THEN NoResults
    ELSE IF idx.d # d THEN DimensionError
    ELSE [results |-> Collect(FaissSearch(idx.vectors, Embed(query), k), 0, rows),
          raised |-> FALSE, loads |-> TRUE]

Names(results) == [i \in 1..Len(results) |-> results[i].name]

\* the names every search of the current instance returns
SearchNames ==
    [q \in Queries |-> [k \in Ks |->
        Names(SearchOn(HAS_DEPENDENCIES, index, metadata_db, q, k,
                       ModelDimension(embedding_model_name)).results)]]

(***************************************************************************)
(* Operations.                                                             *)
(***************************************************************************)
\* history of persist-then-reopen: an add ends it
Forget == persisted' = NotPersisted

\* add_gem testing HAS_DEPENDENCIES only after load_or_create_index
AddGemCheckAfterLoad(call) ==
    /\ pc = "idle"
    /\ ~HAS_DEPENDENCIES
    /\ index' = LoadedIndex(index, index_file, dimension)
    /\ ret' = AddReturned(-1, -1, -1)
    /\ UNCHANGED << gateway_vars, text_vars, api_vars, thread_vars,
                    HAS_DEPENDENCIES, faiss_imported, embedding_model_name,
                    embedding_model, model_loads, dimension, index_file, gems, metadata_db,
                    sqlite_sequence, pc, pending, assigned, added_names,
                    persisted >>

\* add_gem without the dependencies: lines 122-124
AddGemDegraded(call) ==
    /\ pc = "idle"
    /\ ~HAS_DEPENDENCIES
    /\ ret' = AddReturned(-1, -1, -1)
    /\ UNCHANGED << gateway_vars, text_vars, api_vars, thread_vars,
                    HAS_DEPENDENCIES, faiss_imported, embedding_model_name,
                    embedding_model, model_loads, dimension, index, index_file, gems,
                    metadata_db, sqlite_sequence, pc, pending, assigned,
                    added_names, persisted >>

\* load_embedding_model constructing the model on every call
LoadsWithoutCache(loaded, loads) == loads + 1

\* the number of models the instance has constructed after a call of
\* load_embedding_model: one more if self.embedding_model was None
LoadsAfter(loaded, loads) == IF loaded THEN loads ELSE loads + 1

\* the position of the last vector taken for the position of the next one
NextPositionOfLast(idx) == IF idx.vectors = <<>> THEN 0 ELSE Len(idx.vectors) - 1

\* vector_id = self.index.ntotal
NextPosition(idx) == Len(idx.vectors)

\* add_gem leaving self.index.add for after the commit
IndexAddDeferred(idx, vector) == idx

\* self.index.add(embedding): the vector takes the next position
IndexAdd(idx, vector) == [idx EXCEPT !.vectors = Append(idx.vectors, vector)]

\* add_gem up to and including self.index.add: lines 126-142.  The model is
\* loaded first, then the index; read_index may raise, and index.add raises
\* when the embedding has another dimension than the index
AddGemAppend(call) ==
    /\ pc = "idle"
    /\ HAS_DEPENDENCIES
    /\ embedding_model' = TRUE
    /\ model_loads' = LoadsAfter(embedding_model, model_loads)
    /\ dimension' = ModelDimension(embedding_model_name)
    /\ IF ReadIndexRaises(index, index_file)
       THEN /\ index' = index
            /\ pc' = "idle"
            /\ pending' = NoPending
            /\ ret' = Raised("add_gem")
       ELSE LET loaded == LoadedIndex(index, index_file, dimension')
                name == Get(call.gem_data, "name", "")
                description == Get(call.gem_data, "description", "")
                keywords == Get(call.gem_data, "keywords", <<>>)
                embedding_text == CreateEmbeddingText(name, description,
                                                      call.readme_content,
                                                      keywords)
                vector_id == NextPosition(loaded)
            IN IF loaded.d # dimension'
               THEN /\ index' = loaded
                    /\ pc' = "idle"
                    /\ pending' = NoPending
                    /\ ret' = Raised("add_gem")
               ELSE /\ sqlite_sequence < MaxSeq
                    /\ vector_id < MaxVectors
                    /\ index' = IndexAdd(loaded, Embed(embedding_text))
                    /\ pending' = [active |-> TRUE, gem_data |-> call.gem_data,
                                   readme_content |-> call.readme_content,
                                   vector_id |-> vector_id]
                    /\ pc' = "insert"
                    /\ ret' = Returned("add_gem_running")
    /\ Forget
    /\ UNCHANGED << gateway_vars, text_vars, api_vars, thread_vars,
                    HAS_DEPENDENCIES, faiss_imported, embedding_model_name,
                    index_file, gems, metadata_db, sqlite_sequence, assigned,
                    added_names >>

\* a table whose column name takes NULL
InsertRaisesNever(gem_data) == FALSE

\* the INSERT OR REPLACE raises IntegrityError for a name of None: the
\* column is declared NOT NULL
InsertRaises(gem_data) == Get(gem_data, "name", "") = None

\* add_gem from the INSERT OR REPLACE to the return: lines 145-169.  The
\* column name is NOT NULL: a name of None makes execute raise
\* IntegrityError, nothing is written and nothing is committed
AddGemInsert ==
    /\ pc = "insert"
    /\ IF InsertRaises(pending.gem_data)
       THEN /\ ret' = Raised("add_gem")
            /\ UNCHANGED << gems, metadata_db, sqlite_sequence, assigned,
                            added_names >>
       ELSE LET gem_id == NextId(sqlite_sequence, metadata_db,
                                     Get(pending.gem_data, "name", ""))
                row == NewRow(gem_id, pending.gem_data, pending.readme_content,
                              pending.vector_id)
                old == {r \in metadata_db : r.name = row.name}
            IN /\ metadata_db' = InsertOrReplace(metadata_db, row)
               /\ gems' = Commit(gems, metadata_db')
               /\ sqlite_sequence' = gem_id
               /\ ret' = AddReturned(gem_id, pending.vector_id,
                                     IF old = {} THEN -1
                                     ELSE (CHOOSE r \in old : TRUE).embedding_vector_id)
               /\ assigned' = Append(assigned, pending.vector_id)
               /\ added_names' = added_names \cup {row.name}
    /\ pc' = "idle"
    /\ pending' = NoPending
    /\ Forget
    /\ UNCHANGED << gateway_vars, text_vars, api_vars, thread_vars,
                    HAS_DEPENDENCIES, faiss_imported, embedding_model_name,
                    embedding_model, model_loads, dimension, index, index_file >>

\* the text add_gem embedded for a row
EmbeddingTextOf(row) ==
    CreateEmbeddingText(row.name, row.description, row.readme_content,
                        LoadKeywords(row.keywords))

\* the query of a caller who looks up the record add_gem just stored: the
\* text of that record
DerivedQueries ==
    IF ret.op = "add_gem" /\ ~ret.raised /\ ret.id > 0
    THEN {EmbeddingTextOf(r) : r \in {x \in metadata_db : x.id = ret.id}}
    ELSE {}

\* a cursor that sees the committed rows only, as one of another connection
VisibleRowsCommitted(disk, view) == disk

\* the rows a cursor of self.metadata_db sees: those of the connection,
\* what it has written and not yet committed included
VisibleRows(disk, view) == view

\* search(query, k)
Search(query, k) ==
    /\ pc = "idle"
    /\ LET out == SearchOn(HAS_DEPENDENCIES, index, VisibleRows(gems, metadata_db),
                           query, k, ModelDimension(embedding_model_name))
       IN /\ ret' = SearchReturned("search", query, k, out)
          /\ embedding_model' = (embedding_model \/ out.loads)
          /\ model_loads' = IF out.loads
                            THEN LoadsAfter(embedding_model, model_loads)
                            ELSE model_loads
          /\ dimension' = IF out.loads THEN ModelDimension(embedding_model_name)
                          ELSE dimension
    /\ UNCHANGED << gateway_vars, text_vars, api_vars, thread_vars,
                    HAS_DEPENDENCIES, faiss_imported, embedding_model_name,
                    index, index_file, gems, metadata_db, sqlite_sequence, pc,
                    pending, assigned, added_names, persisted >>

\* save_index writing whatever self.index is, an empty index for None
SavedFileAlways(idx, file) == WriteIndex(idx, file)

\* the index file after save_index: written under `if self.index is not
\* None`, left as it is otherwise
SavedFile(idx, file) == IF idx.open THEN WriteIndex(idx, file) ELSE file

\* save_index(); outcome tells whether a file was written and whether one
\* was there before
SaveIndex ==
    /\ pc = "idle"
    /\ index_file' = SavedFile(index, index_file)
    /\ persisted' = IF index.open
                    THEN [phase |-> "persisted", names |-> SearchNames]
                    ELSE NotPersisted
    /\ ret' = [Returned("save_index") EXCEPT !.outcome =
                 IF ~index.open THEN "skipped"
                 ELSE IF index_file.exists THEN "replaced" ELSE "written"]
    /\ UNCHANGED << gateway_vars, text_vars, api_vars, thread_vars,
                    HAS_DEPENDENCIES, faiss_imported, embedding_model_name,
                    embedding_model, model_loads, dimension, index, gems, metadata_db,
                    sqlite_sequence, pc, pending, assigned, added_names >>

\* index_size counted from the index file while no index is loaded
IndexSizeOfFile(idx, file) ==
    IF idx.open THEN Len(idx.vectors) ELSE Len(file.vectors)

\* self.index.ntotal if self.index else 0
IndexSize(idx, file) == IF idx.open THEN Len(idx.vectors) ELSE 0

\* get_stats calling load_or_create_index before it counts
GetStatsLoadingIndex ==
    /\ pc = "idle"
    /\ ~ReadIndexRaises(index, index_file)
    /\ index' = LoadedIndex(index, index_file, dimension)
    /\ ret' = [Returned("get_stats") EXCEPT !.stats =
                 [total_gems |-> Cardinality(metadata_db),
                  index_size |-> IndexSize(index', index_file),
                  dimension |-> dimension,
                  model |-> embedding_model_name,
                  store_path |-> StorePath]]
    /\ UNCHANGED << gateway_vars, text_vars, api_vars, thread_vars,
                    HAS_DEPENDENCIES, faiss_imported, embedding_model_name,
                    embedding_model, model_loads, dimension, index_file, gems,
                    metadata_db, sqlite_sequence, pc, pending, assigned,
                    added_names, persisted >>

\* get_stats()
GetStats ==
    /\ pc = "idle"
    /\ ret' = [Returned("get_stats") EXCEPT !.stats =
                 [total_gems |-> Cardinality(metadata_db),
                  index_size |-> IndexSize(index, index_file),
                  dimension |-> dimension,
                  model |-> embedding_model_name,
                  store_path |-> StorePath]]
    /\ UNCHANGED << gateway_vars, text_vars, api_vars, thread_vars,
                    HAS_DEPENDENCIES, faiss_imported, embedding_model_name,
                    embedding_model, model_loads, dimension, index, index_file, gems,
                    metadata_db, sqlite_sequence, pc, pending, assigned,
                    added_names, persisted >>

\* load_or_create_index(); it uses the name faiss when self.index is None
LoadOrCreateIndex ==
    /\ pc = "idle"
    /\ IF ~index.open /\ (~faiss_imported \/ ReadIndexRaises(index, index_file))
       THEN /\ ret' = Raised("load_or_create_index")
            /\ index' = index
       ELSE /\ ret' = [Returned("load_or_create_index") EXCEPT !.outcome =
                         IF index.open THEN "kept"
                         ELSE IF index_file.exists THEN "loaded" ELSE "created"]
            /\ index' = LoadedIndex(index, index_file, dimension)
    /\ UNCHANGED << gateway_vars, text_vars, api_vars, thread_vars,
                    HAS_DEPENDENCIES, faiss_imported, embedding_model_name,
                    embedding_model, model_loads, dimension, index_file, gems, metadata_db,
                    sqlite_sequence, pc, pending, assigned, added_names,
                    persisted >>

\* load_embedding_model()
LoadEmbeddingModel ==
    /\ pc = "idle"
    /\ IF ~HAS_DEPENDENCIES
       THEN /\ ret' = Raised("load_embedding_model")
            /\ embedding_model' = embedding_model
            /\ model_loads' = model_loads
            /\ dimension' = dimension
       ELSE /\ ret' = Returned("load_embedding_model")
            /\ embedding_model' = TRUE
            /\ model_loads' = LoadsAfter(embedding_model, model_loads)
            /\ dimension' = ModelDimension(embedding_model_name)
    /\ UNCHANGED << gateway_vars, text_vars, api_vars, thread_vars,
                    HAS_DEPENDENCIES, faiss_imported, embedding_model_name,
                    index, index_file, gems, metadata_db, sqlite_sequence, pc,
                    pending, assigned, added_names, persisted >>

\* search_gems calling store.search without load_or_create_index
SearchGemsWithoutLoad(file, rows, query, k) ==
    SearchOn(TRUE, NoIndex, rows, query, k, ModelDimension(DefaultModel))

\* search_gems with the dependencies: store = GemVectorStore(), one
\* store.load_or_create_index(), then store.search(query, k); the instance
\* has the default model and a connection of its own
SearchGemsOn(file, rows, query, k) ==
    IF ReadIndexRaises(NoIndex, file)
    THEN [results |-> <<>>, raised |-> TRUE, loads |-> FALSE]
    ELSE SearchOn(TRUE, LoadedIndex(NoIndex, file, DefaultDimension), rows,
                  query, k, ModelDimension(DefaultModel))

\* search_gems(query, k); outcome is the branch its load_or_create_index took
SearchGems(query, k) ==
    /\ pc = "idle"
    /\ ret' = IF ~HAS_DEPENDENCIES
              THEN SearchReturned("search_gems", query, k, NoResults)
              ELSE [SearchReturned("search_gems", query, k,
                                   SearchGemsOn(index_file, gems, query, k))
                    EXCEPT !.outcome =
                        IF ReadIndexRaises(NoIndex, index_file) THEN ""
                        ELSE IF index_file.exists THEN "loaded" ELSE "created"]
    /\ UNCHANGED << gateway_vars, text_vars, api_vars, thread_vars,
                    HAS_DEPENDENCIES, faiss_imported, embedding_model_name,
                    embedding_model, model_loads, dimension, index, index_file, gems,
                    metadata_db, sqlite_sequence, pc, pending, assigned,
                    added_names, persisted >>

\* the values of --query on the command line; None is the option left out
CliQueries == {None, "", "framework"}

QueryRequired == "Error: --query required for search command"

\* the search command calling search_gems before it looks at args.query
CliSearchWithoutCheck(has_dependencies, file, rows, query, k) ==
    LET out == IF has_dependencies THEN SearchGemsOn(file, rows, query, k)
               ELSE NoResults
    IN [results |-> out.results, raised |-> out.raised,
        cli |-> [exit |-> IF out.raised THEN 1 ELSE 0,
                 printed |-> IF out.raised THEN ""
                             ELSE "\nSearch results for '" \o query \o "':",
                 opened |-> has_dependencies, loaded |-> out.loads]]

\* `python ingest.py search [--query Q] [--limit N]`: without a query the
\* message and exit(1), else search_gems(Q, N) and the printed results; an
\* exception ends the process with a traceback and status 1
CliSearchRun(has_dependencies, file, rows, query, k) ==
    IF ~Truthy(query)
    THEN [results |-> <<>>, raised |-> FALSE,
          cli |-> [exit |-> 1, printed |-> QueryRequired, opened |-> FALSE,
                   loaded |-> FALSE]]
    ELSE CliSearchWithoutCheck(has_dependencies, file, rows, query, k)

\* the search command run as a process of its own on the directory
CliSearch(query, k) ==
    /\ pc = "idle"
    /\ LET run == CliSearchRun(HAS_DEPENDENCIES, index_file, gems, query, k)
       IN ret' = [SearchReturned("cli_search", query, k, run)
                  EXCEPT !.cli = run.cli]
    /\ UNCHANGED << gateway_vars, text_vars, api_vars, thread_vars,
                    HAS_DEPENDENCIES, faiss_imported, embedding_model_name,
                    embedding_model, model_loads, dimension, index, index_file, gems,
                    metadata_db, sqlite_sequence, pc, pending, assigned,
                    added_names, persisted >>

\* a new process imports the module and constructs
\* GemVectorStore(store_path, model_name) on the directory: a new connection
\* sees the committed rows
Construct(model_name) ==
    /\ \E o \in ImportOutcomes :
          /\ HAS_DEPENDENCIES' = o.has
          /\ faiss_imported' = o.faiss
    /\ embedding_model_name' = model_name
    /\ embedding_model' = FALSE
    /\ model_loads' = 0
    /\ dimension' = DefaultDimension
    /\ index' = NoIndex
    /\ metadata_db' = gems
    /\ pc' = "idle"
    /\ pending' = NoPending
    /\ ret' = Returned("restart")
    /\ persisted' = IF persisted.phase = "persisted" /\ ret.op = "save_index"
                    THEN [persisted EXCEPT !.phase = "reopened"]
                    ELSE NotPersisted
    /\ UNCHANGED << gateway_vars, text_vars, api_vars, thread_vars,
                    gems, sqlite_sequence, assigned, added_names >>

\* the process ends (at any point, also inside add_gem) and a new process
\* constructs the store the same way on the same directory
Restart ==
    /\ Construct(embedding_model_name)
    /\ UNCHANGED index_file

\* the next process constructs the store with another embedding model
ReopenWith(model_name) ==
    /\ model_name # embedding_model_name
    /\ Construct(model_name)
    /\ UNCHANGED index_file

\* between two processes the index file is damaged (truncated, overwritten
\* with other bytes): it still exists and faiss.read_index cannot read it
RestartDamaged ==
    /\ index_file.exists
    /\ index_file.readable
    /\ Construct(embedding_model_name)
    /\ index_file' = [index_file EXCEPT !.readable = FALSE]

Next ==
    \/ \E call \in AddCalls : AddGemDegraded(call)
    \/ \E call \in AddCalls : AddGemAppend(call)
    \/ AddGemInsert
    \/ \E query \in Queries \cup DerivedQueries, k \in Ks : Search(query, k)
    \/ SaveIndex
    \/ LoadOrCreateIndex
    \/ LoadEmbeddingModel
    \/ \E query \in Queries, k \in Ks : SearchGems(query, k)
    \/ Restart

Spec == Init /\ [][Next]_vars

\* the store with its statistics and its command line: records are added
\* and saved by the library calls, get_stats reads the counts and
\* `search` runs as a process of its own
NextTools ==
    \/ \E call \in AddCalls : AddGemDegraded(call)
    \/ \E call \in AddCalls : AddGemAppend(call)
    \/ AddGemInsert
    \/ SaveIndex
    \/ LoadOrCreateIndex
    \/ LoadEmbeddingModel
    \/ GetStats
    \/ \E query \in CliQueries, k \in Ks : CliSearch(query, k)
    \/ Restart

SpecTools == Init /\ [][NextTools]_vars

\* the instance with its two read-only operations between adds, persists
\* and restarts
NextReads ==
    \/ \E call \in AddCalls : AddGemDegraded(call)
    \/ \E call \in AddCalls : AddGemAppend(call)
    \/ AddGemInsert
    \/ \E query \in FewQueries, k \in Ks : Search(query, k)
    \/ GetStats
    \/ SaveIndex
    \/ Restart

SpecReads == Init /\ [][NextReads]_vars

\* the calls whose record has a name of None
NullNameCalls == { c \in MalformedCalls : Get(c.gem_data, "name", "") = None }

\* one instance that is also given records whose INSERT fails
NextFailedUpsert ==
    \/ \E call \in AddCalls \cup NullNameCalls : AddGemDegraded(call)
    \/ \E call \in AddCalls \cup NullNameCalls : AddGemAppend(call)
    \/ AddGemInsert
    \/ \E query \in Queries, k \in Ks : Search(query, k)

SpecFailedUpsert == Init /\ [][NextFailedUpsert]_vars

\* the store with an index file that gets damaged between processes
NextDamaged ==
    \/ Next
    \/ RestartDamaged

SpecDamaged == Init /\ [][NextDamaged]_vars

\* the store used with malformed records and with more than one model
NextMisuse ==
    \/ \E call \in AllCalls : AddGemDegraded(call)
    \/ \E call \in AllCalls : AddGemAppend(call)
    \/ AddGemInsert
    \/ \E query \in Queries \cup DerivedQueries \cup EmptyQueries, k \in Ks :
           Search(query, k)
    \/ SaveIndex
    \/ LoadOrCreateIndex
    \/ LoadEmbeddingModel
    \/ Restart
    \/ \E model_name \in OtherModels \cup {DefaultModel} : ReopenWith(model_name)

SpecMisuse == Init /\ [][NextMisuse]_vars

(***************************************************************************)
(* The LLM gateway, services/llm_gateway/main.py: /health, /rank and       *)
(* /suggest of one gateway process.  A request is served in one step; the  *)
(* remote model is the environment and either raises anthropic.APIError,   *)
(* raises something else, or replies with a text.  Requests beyond the     *)
(* rate limit are answered by the limiter and are not modelled.            *)
(***************************************************************************)
MaxGems == 2         \* a /rank request lists at most MaxGems gems

\* GemInfo values; a key that is absent is a field that is None
GatewayGems ==
    { [name |-> "rspec", stars |-> 12, download_count |-> 300],
      [name |-> "minitest", stars |-> 5],
      [name |-> "rake", download_count |-> 5000] }

\* the gems lists of the /rank requests: every gem listed at most once
RankRequests ==
    UNION { { g \in [1..n -> GatewayGems] :
                \A i \in 1..n : \A j \in 1..n : g[i] = g[j] => i = j }
            : n \in 0..MaxGems }

\* the markdown fence of three backquotes, written with apostrophes: a
\* string of this notation cannot hold a backquote
Fence == "'''"

\* the texts the remote model replies with
ModelReplies ==
    { "Invalid JSON response",
      "{\"ranked_gems\": [\"rspec\", \"minitest\"], \"reasoning\": \"relevance\"}",
      "Here you are:\n" \o Fence \o "json\n{\"ranked_gems\": [\"rake\"]}\n" \o Fence,
      "{\"reasoning\": \"none\"}" }

\* what client.messages.create does
ModelOutcomes ==
    { [kind |-> "api_error", text |-> ""], [kind |-> "other_error", text |-> ""] }
        \cup { [kind |-> "reply", text |-> t] : t \in ModelReplies }

\* str.find from position from on, 1-based; 0 where Python returns -1
Find(text, pat, from) ==
    LET found == { i \in from..(Len(text) - Len(pat) + 1) :
                       SubSeq(text, i, i + Len(pat) - 1) = pat }
    IN IF found = {} THEN 0 ELSE CHOOSE i \in found : \A j \in found : i <= j

IsSpace(c) == c = " " \/ c = "\n"

\* str.strip()
Strip(text) ==
    LET kept == { i \in 1..Len(text) : ~IsSpace(SubSeq(text, i, i)) }
    IN IF kept = {} THEN ""
       ELSE SubSeq(text, CHOOSE i \in kept : \A j \in kept : i <= j,
                         CHOOSE i \in kept : \A j \in kept : i >= j)

\* text[start:end].strip() behind an opening fence found at position at and
\* of length n; a closing fence that is not found makes the slice end one
\* character before the end of the text
Fenced(text, at, n) ==
    LET start == at + n
        end == Find(text, Fence, start)
    IN Strip(SubSeq(text, start, IF end = 0 THEN Len(text) - 1 ELSE end - 1))

\* lines 188-195: the reply taken out of a markdown code block
ExtractJson(text) ==
    IF Find(text, Fence \o "json", 1) # 0
    THEN Fenced(text, Find(text, Fence \o "json", 1), 7)
    ELSE IF Find(text, Fence, 1) # 0 THEN Fenced(text, Find(text, Fence, 1), 3)
    ELSE text

\* whether json.loads accepts the text; the replies of ModelReplies that are
\* JSON are objects
IsJsonObject(text) ==
    LET t == Strip(text)
    IN Len(t) >= 2 /\ SubSeq(t, 1, 1) = "{" /\ SubSeq(t, Len(t), Len(t)) = "}"

HasRankedGems(text) == Find(text, "\"ranked_gems\"", 1) # 0

\* result["ranked_gems"] of a reply that has the key: a list of strings
RankedGemsOf(text) ==
    LET key == Find(text, "\"ranked_gems\"", 1)
        open == Find(text, "[", key)
        close == Find(text, "]", open)
    IN ParseItems(SubSeq(text, open, close), 1, FALSE, "")

\* (x.download_count or 0) + (x.stars or 0) * 1000
Popularity(gem) == Get(gem, "download_count", 0) + Get(gem, "stars", 0) * 1000

Alphabet == "abcdefghijklmnopqrstuvwxyz"

RECURSIVE StrLess(_, _)
\* a < b on str, for names of lower-case letters
StrLess(a, b) ==
    IF b = "" THEN FALSE
    ELSE IF a = "" THEN TRUE
    ELSE LET ca == Find(Alphabet, SubSeq(a, 1, 1), 1)
             cb == Find(Alphabet, SubSeq(b, 1, 1), 1)
         IN IF ca # cb THEN ca < cb
            ELSE StrLess(SubSeq(a, 2, Len(a)), SubSeq(b, 2, Len(b)))

\* sorted(items, ...): items[j] comes before items[i] when before[j][i];
\* sorted is stable, also with reverse=True
Arrange(items, before) ==
    LET n == Len(items)
        pos(i) == Cardinality({ j \in 1..n : before[j][i] }) + 1
    IN [ p \in 1..n |-> items[CHOOSE i \in 1..n : pos(i) = p] ]

\* the sort of line 223-227 without reverse=True
SortedByPopularityAscending(items) ==
    Arrange(items, [j \in 1..Len(items) |-> [i \in 1..Len(items) |->
        \/ Popularity(items[j]) < Popularity(items[i])
        \/ Popularity(items[j]) = Popularity(items[i]) /\ j < i]])

\* sorted(request.gems, key=popularity, reverse=True)
SortedByPopularity(items) ==
    Arrange(items, [j \in 1..Len(items) |-> [i \in 1..Len(items) |->
        \/ Popularity(items[j]) > Popularity(items[i])
        \/ Popularity(items[j]) = Popularity(items[i]) /\ j < i]])

\* sorted(request.gems, key=lambda x: x.name)
SortedByName(items) ==
    Arrange(items, [j \in 1..Len(items) |-> [i \in 1..Len(items) |->
        \/ StrLess(items[j].name, items[i].name)
        \/ items[j].name = items[i].name /\ j < i]])

GemNames(items) == [ i \in 1..Len(items) |-> items[i].name ]

\* a dependency that hands out a client whatever the configuration
ClientAlwaysAvailable(api_key) == TRUE

\* get_anthropic_client: HTTPException(503) unless the key is configured
ClientAvailable(api_key) == api_key

\* the response of an endpoint whose dependency raised HTTPException(503)
Unavailable(endpoint, listed) ==
    [endpoint |-> endpoint, status |-> 503, request |-> listed,
     upstream |-> "", reply |-> "", model_called |-> FALSE,
     detail |-> "Anthropic API key not configured"]

\* a 200 of /rank
RankResponse(listed, outcome, ranked_gems, reasoning, confidence) ==
    [endpoint |-> "/rank", status |-> 200, request |-> listed,
     upstream |-> outcome.kind, reply |-> outcome.text, model_called |-> TRUE,
     ranked_gems |-> ranked_gems, reasoning |-> reasoning,
     confidence |-> confidence]

\* a 200 of /suggest; suggestions are the names of the suggested gems
SuggestResponse(outcome, suggestions, reasoning, confidence) ==
    [endpoint |-> "/suggest", status |-> 200, request |-> <<>>,
     upstream |-> outcome.kind, reply |-> outcome.text, model_called |-> TRUE,
     suggestions |-> suggestions, reasoning |-> reasoning,
     confidence |-> confidence]

\* the outer except: HTTPException(500)
InternalError(endpoint, listed, outcome) ==
    [endpoint |-> endpoint, status |-> 500, request |-> listed,
     upstream |-> outcome.kind, reply |-> outcome.text, model_called |-> TRUE,
     detail |-> "Internal server error"]

\* the gateway process starts: the module reads the environment
GatewayStart(api_key) ==
    /\ ANTHROPIC_API_KEY' = api_key
    /\ gateway_response' = NoResponse
    /\ UNCHANGED << store_vars, text_vars, api_vars, thread_vars >>

\* GET /health
Health ==
    /\ gateway_response' =
           [endpoint |-> "/health", status |-> 200, request |-> <<>>,
            upstream |-> "", reply |-> "", model_called |-> FALSE,
            health |-> "healthy", api_key_configured |-> ANTHROPIC_API_KEY]
    /\ UNCHANGED << store_vars, text_vars, api_vars, thread_vars, ANTHROPIC_API_KEY >>

\* POST /rank with the gems of the request; outcome is what the remote model
\* does when it is called
Rank(listed, outcome) ==
    /\ gateway_response' =
           IF ~ClientAvailable(ANTHROPIC_API_KEY) THEN Unavailable("/rank", listed)
           ELSE IF outcome.kind = "api_error"
           THEN RankResponse(listed, outcome, GemNames(SortedByPopularity(listed)),
                    "Fallback ranking by popularity due to API error", "0.5")
           ELSE IF outcome.kind = "other_error"
           THEN InternalError("/rank", listed, outcome)
           ELSE LET response_text == ExtractJson(outcome.text)
                IN IF IsJsonObject(response_text) /\ HasRankedGems(response_text)
                   THEN RankResponse(listed, outcome, RankedGemsOf(response_text),
                                     "", "0.8")
                   ELSE RankResponse(listed, outcome, GemNames(SortedByName(listed)),
                            "Fallback ranking due to parsing error", "0.3")
    /\ UNCHANGED << store_vars, text_vars, api_vars, thread_vars, ANTHROPIC_API_KEY >>

\* POST /suggest
Suggest(outcome) ==
    /\ gateway_response' =
           IF ~ClientAvailable(ANTHROPIC_API_KEY) THEN Unavailable("/suggest", <<>>)
           ELSE IF outcome.kind = "api_error"
           THEN SuggestResponse(outcome, <<"bundler">>,
                    "Fallback suggestions due to API error", "0.4")
           ELSE IF outcome.kind = "other_error"
           THEN InternalError("/suggest", <<>>, outcome)
           ELSE IF IsJsonObject(ExtractJson(outcome.text))
           THEN SuggestResponse(outcome, <<>>, "", "0.8")
           ELSE SuggestResponse(outcome, <<"rails", "sinatra">>,
                    "Fallback suggestions due to parsing error", "0.3")
    /\ UNCHANGED << store_vars, text_vars, api_vars, thread_vars, ANTHROPIC_API_KEY >>

NextGateway ==
    \/ \E api_key \in BOOLEAN : GatewayStart(api_key)
    \/ Health
    \/ \E listed \in RankRequests, outcome \in ModelOutcomes : Rank(listed, outcome)
    \/ \E outcome \in ModelOutcomes : Suggest(outcome)

SpecGateway == Init /\ [][NextGateway]_vars

(***************************************************************************)
(* _create_embedding_text called on its own, as the test does.             *)
(***************************************************************************)
RECURSIVE Filler(_)
\* n characters of readme prose
Filler(n) ==
    IF n = 0 THEN ""
    ELSE IF n = 1 THEN "x"
    ELSE LET half == Filler(n \div 2)
         IN half \o half \o (IF n % 2 = 1 THEN "x" ELSE "")

\* a readme of n characters, n >= 11, that ends in a marker
LongReadme(n) == "# Rails\n" \o Filler(n - 11) \o "THE"

TextNames == {None, "", "rails"}
TextDescriptions == {"", "Web framework"}
TextKeywords == { <<>>, <<"web">>, <<"web", "framework">> }
TextReadmes ==
    {"", "# Rails\nA web framework"}
        \cup { LongReadme(n) : n \in (ReadmeBudget - 1)..(ReadmeBudget + MaxExcess) }

\* self._create_embedding_text(name, description, readme, keywords)
CreateText(name, description, readme, keywords) ==
    /\ text_input' = [name |-> name, description |-> description,
                      readme |-> readme, keywords |-> keywords, called |-> TRUE]
    /\ text_output' = CreateEmbeddingText(name, description, readme, keywords)
    /\ UNCHANGED << store_vars, gateway_vars, api_vars, thread_vars >>

NextText ==
    \E name \in TextNames, description \in TextDescriptions,
       readme \in TextReadmes, keywords \in TextKeywords :
        CreateText(name, description, readme, keywords)

SpecText == Init /\ [][NextText]_vars

(***************************************************************************)
(* add_gem called from two threads on one instance.  The connection is     *)
(* opened with check_same_thread=False and add_gem takes no lock, so the   *)
(* threads may switch between any two statements: a call is the four steps *)
(* read (up to vector_id = self.index.ntotal), append (self.index.add),    *)
(* execute (the INSERT OR REPLACE) and commit.  Each of index.add, execute *)
(* and commit is taken as one step.  search may run between any two of     *)
(* them.  The calls are the well-formed ones; no file is written.          *)
(***************************************************************************)
\* some other thread is inside add_gem
Overlaps(t) == \E o \in Threads \ {t} : threads[o] # Outside

\* the number of threads at one of the stages
CountAt(stages) == Cardinality({ t \in Threads : threads[t].at \in stages })

\* add_gem from its first line to vector_id = self.index.ntotal
ThreadEnter(t, call) ==
    /\ threads[t] = Outside
    /\ HAS_DEPENDENCIES
    /\ ~ReadIndexRaises(index, index_file)
    /\ Len(index.vectors) + CountAt({"read"}) < MaxVectors
    /\ sqlite_sequence + CountAt({"read", "appended"}) < MaxSeq
    /\ embedding_model' = TRUE
    /\ model_loads' = LoadsAfter(embedding_model, model_loads)
    /\ dimension' = ModelDimension(embedding_model_name)
    /\ index' = LoadedIndex(index, index_file, dimension')
    /\ index'.d = dimension'
    /\ threads' = [threads EXCEPT ![t] =
                      [at |-> "read", call |-> call,
                       vector_id |-> NextPosition(index'), gem_id |-> 0,
                       replaced |-> -1]]
    /\ overlapped' = (overlapped \/ Overlaps(t))
    /\ UNCHANGED << gateway_vars, text_vars, api_vars, HAS_DEPENDENCIES,
                    faiss_imported, embedding_model_name, index_file, gems,
                    metadata_db, sqlite_sequence, pc, pending, ret, assigned,
                    added_names, persisted >>

\* self.index.add(embedding)
ThreadAppend(t) ==
    /\ threads[t].at = "read"
    /\ LET call == threads[t].call
           embedding_text ==
               CreateEmbeddingText(Get(call.gem_data, "name", ""),
                                   Get(call.gem_data, "description", ""),
                                   call.readme_content,
                                   Get(call.gem_data, "keywords", <<>>))
       IN index' = IndexAdd(index, Embed(embedding_text))
    /\ threads' = [threads EXCEPT ![t].at = "appended"]
    /\ UNCHANGED << gateway_vars, text_vars, api_vars, overlapped, HAS_DEPENDENCIES,
                    faiss_imported, embedding_model_name, embedding_model,
                    model_loads, dimension, index_file, gems, metadata_db,
                    sqlite_sequence, pc, pending, ret, assigned, added_names,
                    persisted >>

\* cursor.execute(INSERT OR REPLACE ...) and gem_id = cursor.lastrowid
ThreadExecute(t) ==
    /\ threads[t].at = "appended"
    /\ LET gem_id == NextId(sqlite_sequence, metadata_db,
                            Get(threads[t].call.gem_data, "name", ""))
           row == NewRow(gem_id, threads[t].call.gem_data,
                         threads[t].call.readme_content, threads[t].vector_id)
           old == {r \in metadata_db : r.name = row.name}
       IN /\ metadata_db' = InsertOrReplace(metadata_db, row)
          /\ sqlite_sequence' = gem_id
          /\ threads' = [threads EXCEPT
                            ![t].at = "executed",
                            ![t].gem_id = gem_id,
                            ![t].replaced =
                                IF old = {} THEN -1
                                ELSE (CHOOSE r \in old : TRUE).embedding_vector_id]
    /\ UNCHANGED << gateway_vars, text_vars, api_vars, overlapped, HAS_DEPENDENCIES,
                    faiss_imported, embedding_model_name, embedding_model,
                    model_loads, dimension, index, index_file, gems, pc, pending,
                    ret, assigned, added_names, persisted >>

\* self.metadata_db.commit() and return gem_id: the commit is the
\* connection's, it commits what the other thread has executed as well
ThreadCommit(t) ==
    /\ threads[t].at = "executed"
    /\ gems' = Commit(gems, metadata_db)
    /\ ret' = AddReturned(threads[t].gem_id, threads[t].vector_id,
                          threads[t].replaced)
    /\ assigned' = Append(assigned, threads[t].vector_id)
    /\ added_names' = added_names \cup {Get(threads[t].call.gem_data, "name", "")}
    /\ threads' = [threads EXCEPT ![t] = Outside]
    /\ UNCHANGED << gateway_vars, text_vars, api_vars, overlapped, HAS_DEPENDENCIES,
                    faiss_imported, embedding_model_name, embedding_model,
                    model_loads, dimension, index, index_file, metadata_db,
                    sqlite_sequence, pc, pending, persisted >>

NextThreads ==
    \/ \E t \in Threads, call \in AddCalls : ThreadEnter(t, call)
    \/ \E t \in Threads : ThreadAppend(t)
    \/ \E t \in Threads : ThreadExecute(t)
    \/ \E t \in Threads : ThreadCommit(t)
    \/ \E call \in AddCalls : AddGemDegraded(call)
    \/ \E query \in FewQueries, k \in Ks : Search(query, k)

SpecThreads == Init /\ [][NextThreads]_vars

(***************************************************************************)
(* The mock API servers, services/simple_api.py (http.server) and          *)
(* services/mock_api.py (FastAPI): POST /gems and GET /gems/{id} over the   *)
(* module's list MOCK_GEMS.  Requests are handled one at a time.  Of a gem  *)
(* the keys id, name and version are kept; the others are constants or are  *)
(* copied from the request like version.                                    *)
(***************************************************************************)
ApiServers == {"simple_api", "mock_api"}

\* the JSON objects posted; a key id in the body is not read by the servers
GemData ==
    { [name |-> "rspec"],
      [name |-> "rails", version |-> "8.0.0", id |-> 1],
      [version |-> "0.1.0"] }

\* the ids asked for: 0, those that can be in the list and one beyond them
GemIds == 0..(Len(InitialGems("mock_api")) + MaxPosts + 1)

\* a new gem numbered with the length of the list
NewGemNumberedFromLength(listed, gem_data) ==
    [id |-> Len(listed),
     name |-> Get(gem_data, "name", "unknown"),
     version |-> Get(gem_data, "version", "1.0.0")]

\* new_gem of do_POST and create_gem
NewGem(listed, gem_data) ==
    [id |-> Len(listed) + 1,
     name |-> Get(gem_data, "name", "unknown"),
     version |-> Get(gem_data, "version", "1.0.0")]

\* next((g for g in MOCK_GEMS if g["id"] == gem_id), None)
Lookup(listed, gem_id) ==
    LET at == { i \in 1..Len(listed) : listed[i].id = gem_id }
    IN IF at = {} THEN NoGem
       ELSE listed[CHOOSE i \in at : \A j \in at : i <= j]

\* the server process starts: the module is loaded and defines MOCK_GEMS
ApiStart(server) ==
    /\ api_server' = server
    /\ MOCK_GEMS' = InitialGems(server)
    /\ api_response' = NoApiResponse
    /\ UNCHANGED << store_vars, gateway_vars, text_vars, thread_vars >>

\* POST /gems with a JSON object: 201 from simple_api, 200 from mock_api
PostGems(gem_data) ==
    /\ Len(MOCK_GEMS) < Len(InitialGems(api_server)) + MaxPosts
    /\ LET new_gem == NewGem(MOCK_GEMS, gem_data)
       IN /\ MOCK_GEMS' = Append(MOCK_GEMS, new_gem)
          /\ api_response' = [method |-> "POST", gem_id |-> 0,
                              status |-> IF api_server = "simple_api" THEN 201
                                         ELSE 200,
                              gem |-> new_gem, error |-> "", then |-> 0]
    /\ UNCHANGED << store_vars, gateway_vars, text_vars, thread_vars, api_server >>

\* POST /gems with a body that is not JSON: json.loads raises
\* JSONDecodeError in do_POST, FastAPI rejects the body before create_gem
PostInvalid ==
    /\ api_response' = [method |-> "POST", gem_id |-> 0,
                        status |-> IF api_server = "simple_api" THEN 400 ELSE 422,
                        gem |-> NoGem,
                        error |-> IF api_server = "simple_api" THEN "Invalid JSON"
                                  ELSE "validation",
                        then |-> 0]
    /\ UNCHANGED << store_vars, gateway_vars, text_vars, thread_vars, api_server,
                    MOCK_GEMS >>

\* GET /gems/{gem_id}.  Where no gem has the id, do_GET sends status 404 with
\* the error object; get_gem returns the pair (error object, 404), which
\* FastAPI sends as a JSON list with status 200
GetGem(gem_id) ==
    /\ LET gem == Lookup(MOCK_GEMS, gem_id)
       IN api_response' =
             IF gem # NoGem
             THEN [method |-> "GET", gem_id |-> gem_id, status |-> 200,
                   gem |-> gem, error |-> "", then |-> 0]
             ELSE IF api_server = "simple_api"
             THEN [method |-> "GET", gem_id |-> gem_id, status |-> 404,
                   gem |-> NoGem, error |-> "Gem not found", then |-> 0]
             ELSE [method |-> "GET", gem_id |-> gem_id, status |-> 200,
                   gem |-> NoGem, error |-> "Gem not found", then |-> 404]
    /\ UNCHANGED << store_vars, gateway_vars, text_vars, thread_vars, api_server,
                    MOCK_GEMS >>

NextApi ==
    \/ \E server \in ApiServers : ApiStart(server)
    \/ \E gem_data \in GemData : PostGems(gem_data)
    \/ PostInvalid
    \/ \E gem_id \in GemIds : GetGem(gem_id)

SpecApi == Init /\ [][NextApi]_vars

(***************************************************************************)
(* Properties.                                                             *)
(***************************************************************************)
AddSucceeded == ret.op = "add_gem" /\ ~ret.raised /\ ret.id # -1

\* C1: position uniqueness (I1) -- in every state reachable by adds, persists
\* and restarts no two rows of gems hold the same embedding_vector_id
C1_PositionUnique ==
    \A r1 \in gems : \A r2 \in gems :
        r1.embedding_vector_id = r2.embedding_vector_id => r1 = r2

\* C2: no dangling rows -- once the index has been reloaded from its file
\* after a crash, no row holds an embedding_vector_id at or beyond the size
\* of the reloaded index
C2_NoDanglingRow ==
    (ret.op = "load_or_create_index" /\ ret.outcome = "loaded")
        => \A r \in gems : r.embedding_vector_id < Len(index.vectors)

\* C3: position assignment -- a successful add assigns the size the index had
\* before the append and grows the index by one, and over the lifetime of the
\* store directory the positions of successive adds are strictly increasing
C3_PositionsIncrease ==
    /\ AddSucceeded => ret.position = Len(index.vectors) - 1
    /\ \A i \in 1..Len(assigned) : \A j \in 1..Len(assigned) :
           i < j => assigned[i] < assigned[j]

\* C4: persistence round trip -- a new instance opened on the path right
\* after save_index returns for every query and k the names, in order, that
\* the instance that persisted returned
C4_PersistRoundTrip ==
    (persisted.phase = "reopened" /\ HAS_DEPENDENCIES)
        => SearchNames = persisted.names

\* C5: degrade on add -- without the dependencies add_gem returns -1 and
\* leaves the rows of gems, the in-memory index and the index file unchanged
C5_DegradedAdd ==
    [][ (~HAS_DEPENDENCIES /\ pc = "idle" /\ ret'.op = "add_gem")
          => /\ ret'.id = -1
             /\ ~ret'.raised
             /\ gems' = gems
             /\ sqlite_sequence' = sqlite_sequence
             /\ index' = index
             /\ index_file' = index_file ]_vars

C5_Witness ==
    /\ ~HAS_DEPENDENCIES
    /\ ret.op = "add_gem"
    /\ ret.id = -1
    /\ gems # {}
    /\ index_file.exists

\* C6: degrade on search -- without the dependencies search and search_gems
\* return an empty list, whatever the store holds, without raising and
\* without loading the model or the index
C6_DegradedSearch ==
    [][ (~HAS_DEPENDENCIES /\ ret'.op \in {"search", "search_gems"})
          => /\ ret'.results = <<>>
             /\ ~ret'.raised
             /\ embedding_model' = embedding_model
             /\ index' = index ]_vars

C6_Witness ==
    /\ ~HAS_DEPENDENCIES
    /\ ret.op = "search"
    /\ index.open
    /\ Len(index.vectors) > 0
    /\ RowsAt(gems, 0) # {}

\* C7: empty-index law -- on a store to which nothing was ever added search
\* returns an empty list and does not raise
C7_EmptyIndex ==
    (ret.op = "search" /\ assigned = <<>>)
        => (ret.results = <<>> /\ ~ret.raised)

C7_Witness ==
    /\ ret.op = "search"
    /\ assigned = <<>>
    /\ HAS_DEPENDENCIES
    /\ ~index.open
    /\ gems = {}

C9_ReplaceOrphans ==
    (AddSucceeded /\ ret.replaced # -1)
        => /\ ret.replaced < Len(index.vectors)
           /\ RowsAt(gems, ret.replaced) = {}
           /\ \A q \in Queries : \A k \in Ks :
                  LET hits == FaissSearch(index.vectors, Embed(q), k)
                      found == SearchOn(HAS_DEPENDENCIES, index, metadata_db, q, k,
                                        ModelDimension(embedding_model_name)).results
                  IN \A i \in 1..Len(hits) :
                         hits[i].idx = ret.replaced
                             => \A n \in 1..Len(found) : found[n].rank # i

\* the hits of the last search that have a row
Resolves(hit) == hit.idx # -1 /\ RowsAt(gems, hit.idx) # {}
HitsOfLastSearch == FaissSearch(index.vectors, Embed(ret.args.query), ret.args.k)

\* C10: resolution gap -- search skips every hit whose position has no row,
\* returns the records of all the other hits in the order of the hits, and
\* does not raise
C10_ResolutionGap ==
    ret.op = "search"
        => /\ ~ret.raised
           /\ (HAS_DEPENDENCIES /\ index.open /\ Len(index.vectors) > 0)
                 => LET kept == SelectSeq(HitsOfLastSearch, Resolves)
                    IN /\ Len(ret.results) = Len(kept)
                       /\ \A i \in 1..Len(kept) :
                              /\ \E r \in RowsAt(gems, kept[i].idx) :
                                     ret.results[i].name = r.name
                              /\ ret.results[i].similarity_score = kept[i].score

C10_Witness ==
    /\ ret.op = "search"
    /\ HAS_DEPENDENCIES
    /\ index.open
    /\ Len(ret.results) > 0
    /\ HitsOfLastSearch[1].idx # -1
    /\ ~Resolves(HitsOfLastSearch[1])

\* C11: rank numbering -- the i-th element of the list search returns has
\* rank i, also when hits were skipped
C11_RankNumbering ==
    ret.op = "search"
        => \A i \in 1..Len(ret.results) : ret.results[i].rank = i

Min(a, b) == IF a <= b THEN a ELSE b

\* C13: capacity law -- search(q, k) returns at most min(k, total_records)
\* results and no result stems from a no-hit (-1) entry of the index
C13_Capacity ==
    ret.op = "search"
        => /\ Len(ret.results) <= Min(ret.args.k, Cardinality(gems))
           /\ \A i \in 1..Len(ret.results) :
                  HitsOfLastSearch[ret.results[i].rank].idx # -1

C13_Witness ==
    /\ ret.op = "search"
    /\ Len(ret.results) > 0
    /\ ret.args.k > Len(index.vectors)
    /\ HitsOfLastSearch[ret.args.k] = NoHit

C12_RoundTrip ==
    [][ ( /\ AddSucceeded
          /\ ret.replaced = -1
          /\ Cardinality(metadata_db) = 1
          /\ \A r \in metadata_db : Truthy(r.name)
          /\ ret'.op = "search"
          /\ ret'.args.query \in DerivedQueries )
        => LET R == CHOOSE r \in metadata_db : r.id = ret.id
           IN /\ Len(ret'.results) = 1
              /\ ret'.results[1].name = R.name
              /\ ret'.results[1].description = R.description
              /\ ret'.results[1].keywords = LoadKeywords(R.keywords)
              /\ ret'.results[1].version = R.version
              /\ ret'.results[1].stars = R.stars
              /\ ret'.results[1].rank = 1 ]_vars

C12_Witness ==
    /\ ret.op = "search"
    /\ ret.args.query \notin Queries
    /\ Cardinality(metadata_db) = 1
    /\ Len(ret.results) = 1
    /\ ret.results[1].rank = 1
    /\ \E r \in metadata_db : /\ r.name = ret.results[1].name
                              /\ EmbeddingTextOf(r) = ret.args.query

\* C15: malformed input -- add_gem of a record without a name (key absent,
\* empty or None) is rejected before anything is changed: no such call gets
\* as far as having its vector appended to the index
C15_MalformedRejected ==
    pending.active => Truthy(Get(pending.gem_data, "name", ""))

\* C16: dimension mismatch -- load_or_create_index on an index file whose
\* dimension differs from the model's fails with an error, and no add is
\* under way on an index of another dimension than the model's
C16_DimensionChecked ==
    /\ ( /\ ret.op = "load_or_create_index"
         /\ ret.outcome # "kept"
         /\ index_file.exists
         /\ index_file.d # ModelDimension(embedding_model_name) )
       => ret.raised
    /\ pc = "insert" => index.d = ModelDimension(embedding_model_name)

\* C17: an unreadable index file is not silently recreated -- while the file
\* exists and cannot be read, load_or_create_index and add_gem raise, the
\* index of the instance stays unloaded, and no operation (save_index
\* included) changes the file
C17_UnreadableKept ==
    [][ (index_file.exists /\ ~index_file.readable)
        => /\ index_file' = index_file
           /\ ~index'.open
           /\ ret'.op = "load_or_create_index" => ret'.raised
           /\ (ret'.op = "add_gem" /\ HAS_DEPENDENCIES) => ret'.raised
           /\ (ret'.op = "search_gems" /\ HAS_DEPENDENCIES) => ret'.raised ]_vars

C17_Witness ==
    /\ index_file.exists
    /\ ~index_file.readable
    /\ Len(index_file.vectors) > 0
    /\ ret.op = "add_gem"
    /\ ret.raised

\* C18: paired files -- with an index file that holds a vector and an empty
\* table gems, opening the store and loading the index reports an error
C18_PairedFiles ==
    ( /\ ret.op \in {"load_or_create_index", "search_gems"}
      /\ ret.outcome # "kept"
      /\ HAS_DEPENDENCIES
      /\ index_file.exists
      /\ Len(index_file.vectors) >= 1
      /\ gems = {} )
        => ret.raised

\* C19: metadata durability -- when add_gem returns an id its row is
\* committed, and every row an instance saw is there with the same name,
\* metadata and position after the process ended and a new one opened the
\* store, whether or not save_index was called
C19_MetadataDurable ==
    [][ /\ AddSucceeded'
            => \E r \in gems' : /\ r.id = ret'.id
                                /\ r.embedding_vector_id = ret'.position
        /\ ret'.op = "restart"
            => /\ metadata_db \subseteq gems'
               /\ metadata_db \subseteq metadata_db' ]_vars

C19_Witness ==
    /\ ret.op = "restart"
    /\ metadata_db # {}
    /\ ~index_file.exists

\* C20: save_index writes the full index -- on an instance with a loaded
\* index the file afterwards holds exactly the vectors of the in-memory
\* index at positions 0..n-1, whatever it held before, and neither the
\* in-memory index nor any row changes
C20_PersistFull ==
    [][ (ret'.op = "save_index" /\ index.open)
        => /\ index_file'.exists
           /\ Len(index_file'.vectors) = Len(index.vectors)
           /\ \A i \in 1..Len(index.vectors) :
                  index_file'.vectors[i] = index.vectors[i]
           /\ index' = index
           /\ gems' = gems
           /\ metadata_db' = metadata_db ]_vars

C20_Witness ==
    /\ ret.op = "save_index"
    /\ ret.outcome = "replaced"
    /\ Len(index.vectors) = 2
    /\ index_file.vectors = index.vectors

\* C21: returned id -- after a successful add_gem the row whose id is the
\* returned value is the row just written: it holds the given name,
\* description, readme content, keywords (decoding to the same list) and
\* the position this add assigned
C21_ReturnedId ==
    [][ AddSucceeded'
        => LET rows == {r \in metadata_db' : r.id = ret'.id}
           IN /\ Cardinality(rows) = 1
              /\ \A r \in rows :
                    /\ r.name = Get(pending.gem_data, "name", "")
                    /\ r.description = Get(pending.gem_data, "description", "")
                    /\ r.readme_content = pending.readme_content
                    /\ LoadKeywords(r.keywords)
                           = Get(pending.gem_data, "keywords", <<>>)
                    /\ r.embedding_vector_id = pending.vector_id
                    /\ r.embedding_vector_id = Len(index.vectors) - 1 ]_vars

C21_Witness ==
    /\ AddSucceeded
    /\ \E r \in metadata_db : /\ r.id = ret.id
                              /\ r.id = 2
                              /\ Len(LoadKeywords(r.keywords)) = 2
                              /\ r.readme_content # ""

\* C22: stats -- get_stats returns total_gems = number of rows of table
\* gems, index_size = number of vectors of the loaded index and 0 while no
\* index is loaded (whatever the index file holds), and the dimension, model
\* name and store path of the instance
C22_Stats ==
    ret.op = "get_stats"
        => /\ ret.stats.total_gems = Cardinality(gems)
           /\ index.open => ret.stats.index_size = Len(index.vectors)
           /\ ~index.open => ret.stats.index_size = 0
           /\ ret.stats.dimension = dimension
           /\ ret.stats.model = embedding_model_name
           /\ ret.stats.store_path = StorePath

C22_Witness ==
    /\ ret.op = "get_stats"
    /\ ~index.open
    /\ Len(index_file.vectors) > 0
    /\ ret.stats.total_gems = 2
    /\ ret.stats.index_size = 0

\* C23: search_gems -- with the dependencies available search_gems(query, k)
\* opens a store, loads the index once (from the index file when there is
\* one) and returns what the search on that index returns: the hits of the
\* vectors in the index file resolved against the committed rows
C23_SearchGems ==
    [][ (ret'.op = "search_gems" /\ HAS_DEPENDENCIES)
        => /\ ~ret'.raised
           /\ ret'.outcome = IF index_file.exists THEN "loaded" ELSE "created"
           /\ ret'.results =
                 IF Len(index_file.vectors) = 0 THEN <<>>
                 ELSE Collect(FaissSearch(index_file.vectors,
                                          Embed(ret'.args.query), ret'.args.k),
                              0, gems) ]_vars

C23_Witness ==
    /\ ret.op = "search_gems"
    /\ Len(ret.results) = 1
    /\ index.open
    /\ Len(index.vectors) > Len(index_file.vectors)

\* whether b lists the elements of a, each as often as a does
IsPermutation(a, b) ==
    /\ Len(a) = Len(b)
    /\ \A x \in {a[i] : i \in 1..Len(a)} \cup {b[i] : i \in 1..Len(b)} :
           Cardinality({i \in 1..Len(a) : a[i] = x})
               = Cardinality({i \in 1..Len(b) : b[i] = x})

\* the gem of the request that has the name
GemNamed(name) ==
    CHOOSE g \in {gateway_response.request[i] :
                      i \in 1..Len(gateway_response.request)} : g.name = name

\* the ranking lists every gem of the request once, the more popular first
PopularityRanking ==
    /\ gateway_response.status = 200
    /\ IsPermutation(GemNames(gateway_response.request),
                     gateway_response.ranked_gems)
    /\ \A i \in 1..Len(gateway_response.ranked_gems) :
       \A j \in 1..Len(gateway_response.ranked_gems) :
           i < j => Popularity(GemNamed(gateway_response.ranked_gems[i]))
                        >= Popularity(GemNamed(gateway_response.ranked_gems[j]))

\* C24: gateway fallback on API failure -- when the call of the remote model
\* raises an API error, /rank answers 200 with a ranking that holds every
\* gem name of the request exactly once, ordered by
\* download_count + 1000 * stars from highest to lowest
C24_ApiErrorFallback ==
    (gateway_response.endpoint = "/rank" /\ gateway_response.upstream = "api_error")
        => PopularityRanking

C24_Witness ==
    /\ gateway_response.endpoint = "/rank"
    /\ gateway_response.upstream = "api_error"
    /\ gateway_response.status = 200
    /\ GemNames(gateway_response.request) = <<"minitest", "rspec">>
    /\ gateway_response.ranked_gems = <<"rspec", "minitest">>

\* C25: gateway fallback on unparsable model output -- when the reply of the
\* model is not valid JSON, /rank answers 200 with a ranking that holds every
\* gem of the request, the gem with more stars and downloads first
C25_ParseErrorFallback ==
    ( /\ gateway_response.endpoint = "/rank"
      /\ gateway_response.upstream = "reply"
      /\ ~IsJsonObject(ExtractJson(gateway_response.reply)) )
        => PopularityRanking

\* C26: gateway without API key -- /rank and /suggest answer 503 without
\* calling the model, /health answers 200 with status healthy and
\* api_key_configured false
C26_NoApiKey ==
    (~ANTHROPIC_API_KEY /\ gateway_response.endpoint # "")
        => /\ gateway_response.endpoint \in {"/rank", "/suggest"}
               => /\ gateway_response.status = 503
                  /\ ~gateway_response.model_called
           /\ gateway_response.endpoint = "/health"
               => /\ gateway_response.status = 200
                  /\ gateway_response.health = "healthy"
                  /\ gateway_response.api_key_configured = FALSE

C26_Witness ==
    /\ ~ANTHROPIC_API_KEY
    /\ gateway_response.endpoint = "/suggest"
    /\ gateway_response.status = 503

\* C27: CLI search without --query -- the search command prints the error
\* message and exits with status 1 without constructing a store, loading a
\* model or writing the index file or the database
C27_CliSearchWithoutQuery ==
    [][(ret'.op = "cli_search" /\ ~Truthy(ret'.args.query))
          => /\ ret'.cli.exit = 1
             /\ ret'.cli.printed = QueryRequired
             /\ ~ret'.cli.opened
             /\ ~ret'.cli.loaded
             /\ UNCHANGED << index_file, gems, sqlite_sequence >>]_vars

C27_Witness ==
    /\ ret.op = "cli_search"
    /\ ret.args.query = None
    /\ ret.cli.exit = 1
    /\ HAS_DEPENDENCIES
    /\ index_file.exists

\* the vector has L2 norm 1 up to the rounding of the fixed-point components
UnitNorm(v) ==
    /\ NaN \notin {v[1], v[2]}
    /\ (Scale - 2) * (Scale - 2) <= v[1] * v[1] + v[2] * v[2]
    /\ v[1] * v[1] + v[2] * v[2] <= Scale * Scale

\* the last call was a search that passed a query vector to the index
QueryPassedToIndex ==
    /\ ret.op = "search"
    /\ HAS_DEPENDENCIES
    /\ index.open
    /\ Len(index.vectors) > 0

\* C28: normalization (I2) -- every vector add appended to the index and
\* every query vector search passed to the index has L2 norm 1 within a
\* small tolerance, also for a text whose raw embedding is the zero vector
C28_Normalization ==
    /\ index.open => \A i \in 1..Len(index.vectors) : UnitNorm(index.vectors[i])
    /\ QueryPassedToIndex => UnitNorm(Embed(ret.args.query))

\* C29: lazy, cached loading -- a constructed store has neither the model
\* nor the index; the model is there once an operation that needs it has
\* run, and the instance constructs it at most once, whatever sequence of
\* add, search and load_embedding_model calls it serves
C29_LazyCachedLoading ==
    /\ ret.op \in {"init", "restart"}
           => (~embedding_model /\ ~index.open /\ model_loads = 0)
    /\ model_loads <= 1
    /\ embedding_model <=> (model_loads = 1)
    /\ (ret.op = "load_embedding_model" /\ ~ret.raised) => embedding_model
    /\ pc # "idle" => embedding_model
    /\ (ret.op = "search" /\ Len(ret.results) > 0) => embedding_model

C29_Witness ==
    /\ ret.op = "search"
    /\ Len(ret.results) > 0
    /\ Len(index.vectors) = 2
    /\ ~index_file.exists
    /\ model_loads = 1

\* C30: load_or_create_index -- on an instance without an index the call
\* loads the index of the index file if the file exists and creates an empty
\* index of the instance's current dimension otherwise; on an instance with
\* an index it changes nothing, so vectors appended in memory stay.  Where
\* the name faiss is not bound the call on an instance without an index
\* raises and leaves the instance without one
C30_LoadOrCreateIndex ==
    [][ret'.op = "load_or_create_index"
          => /\ UNCHANGED << index_file, gems, metadata_db, dimension >>
             /\ IF index.open
                THEN ~ret'.raised /\ index' = index
                ELSE IF faiss_imported
                THEN /\ ~ret'.raised
                     /\ index'.open
                     /\ index_file.exists
                            => /\ index'.vectors = index_file.vectors
                               /\ index'.d = index_file.d
                     /\ ~index_file.exists
                            => /\ index'.vectors = <<>>
                               /\ index'.d = dimension
                ELSE ret'.raised /\ index' = index]_vars

C30_Witness ==
    /\ ret.op = "load_or_create_index"
    /\ ret.outcome = "kept"
    /\ index_file.exists
    /\ Len(index.vectors) > Len(index_file.vectors)

\* the four sections of the text for the arguments of a call, in the order
\* the text has them: the label and what follows it
SectionsOf(input) ==
    << [label |-> "Gem: ", field |-> IF input.name = None THEN "" ELSE input.name],
       [label |-> "Description: ", field |-> input.description],
       [label |-> "Keywords: ", field |-> Join(", ", input.keywords)],
       [label |-> "Documentation: ",
        field |-> SubSeq(input.readme, 1, Min(Len(input.readme), ReadmeBudget))] >>

\* the characters the sections of the fields before the i-th one take,
\* separators included
RECURSIVE OffsetOf(_, _)
OffsetOf(sections, i) ==
    IF i <= 1 THEN 0
    ELSE OffsetOf(sections, i - 1)
         + (IF sections[i - 1].field = "" THEN 0
            ELSE Len(sections[i - 1].label) + Len(sections[i - 1].field) + 1)

\* C31: embedding text -- the text built for a record holds one section per
\* non-empty source field and none for an empty one, in the order name,
\* description, keywords (joined by ", "), documentation; each section is its
\* label followed by the field, the sections are separated by one newline and
\* nothing else is in the text; the documentation section holds exactly the
\* first 2000 characters of the readme when the readme is longer and the
\* whole readme otherwise
C31_EmbeddingText ==
    text_input.called =>
        LET sections == SectionsOf(text_input)
            text == text_output
            present == { i \in 1..4 : sections[i].field # "" }
        IN /\ \A i \in 1..4 :
                  LET s == sections[i]
                      at == OffsetOf(sections, i) + 1
                  IN IF i \in present
                     THEN /\ Find(text, s.label, 1) = at
                          /\ SubSeq(text, at, at + Len(s.label) + Len(s.field) - 1)
                                = s.label \o s.field
                          /\ at > 1 => SubSeq(text, at - 1, at - 1) = "\n"
                     ELSE Find(text, s.label, 1) = 0
           /\ Len(text) = IF present = {} THEN 0 ELSE OffsetOf(sections, 5) - 1

\* a record with all four fields whose readme is longer than the budget
C31_Witness ==
    /\ text_input.called
    /\ Truthy(text_input.name)
    /\ text_input.description # ""
    /\ Len(text_input.keywords) = 2
    /\ Len(text_input.readme) > ReadmeBudget
    /\ Len(text_output) > ReadmeBudget

\* the instance has its index and every committed row's position is below
\* the size of the index
Consistent(idx, rows) ==
    idx.open /\ \A r \in rows : r.embedding_vector_id < Len(idx.vectors)

\* C32: step order inside add -- the vector is appended to the in-memory
\* index before the row is written and committed: a step of an instance
\* that has its index, with every committed row's position below the index
\* size, leads to a state of that instance in which this is so again; so
\* within a process lifetime that started consistent no state, the one
\* between the two steps of an add included, has a committed row whose
\* position is greater than or equal to the in-memory index size
C32_StepOrder ==
    [][(Consistent(index, gems) /\ index'.open) => Consistent(index', gems')]_vars

\* an add between its two steps on an instance that holds a committed row:
\* the vector is appended, the row is not written yet
C32_Witness ==
    /\ pc = "insert"
    /\ gems # {}
    /\ Consistent(index, gems)
    /\ pending.vector_id = Len(index.vectors) - 1
    /\ RowsAt(gems, pending.vector_id) = {}

\* two committed rows of different names carry the same position and some
\* appended vector is referenced by no row
RaceState ==
    /\ \E r1, r2 \in gems :
          r1.name # r2.name /\ r1.embedding_vector_id = r2.embedding_vector_id
    /\ \E p \in 0..(Len(index.vectors) - 1) : RowsAt(gems, p) = {}

\* C33: unserialized adds race -- add reads the index size and appends the
\* vector as two steps without a lock: the state in which two rows of
\* different names carry the same vector position while an appended vector
\* is referenced by no row is reached when two add calls interleave on one
\* instance, and within one process lifetime it is reached only then, never
\* by add calls that ran one after the other
C33_UnserializedAddsRace == RaceState => overlapped

\* both interleaved adds have returned and left the two rows on one position
C33_Witness ==
    /\ RaceState
    /\ overlapped
    /\ \A t \in Threads : threads[t] = Outside
    /\ Len(index.vectors) = 2
    /\ Cardinality(gems) = 2

\* the step is a search that ran while thread t, alone inside add_gem on an
\* instance whose adds did not overlap so far, was at one of the stages
SearchWhile(t, stages) ==
    /\ threads[t] # Outside
    /\ threads[t].at \in stages
    /\ \A o \in Threads \ {t} : threads[o] = Outside
    /\ ~overlapped
    /\ threads' = threads
    /\ ret'.op = "search"

\* what index.search reported to the search that just returned
HitsOfSearch == FaissSearch(index.vectors, Embed(ret'.args.query), ret'.args.k)

\* the positions of the hits whose rows that search returned for a name
ReturnedAt(name) ==
    { HitsOfSearch[ret'.results[i].rank].idx :
          i \in { j \in 1..Len(ret'.results) : ret'.results[j].name = name } }

\* the positions index.search reported
PositionsHit == { HitsOfSearch[i].idx : i \in 1..Len(HitsOfSearch) } \ {-1}

\* every result is the row of the position of its hit
ResultsMatchHits ==
    \A i \in 1..Len(ret'.results) :
        LET r == ret'.results[i]
            hit == HitsOfSearch[r.rank]
        IN \E row \in metadata_db :
              /\ row.embedding_vector_id = hit.idx
              /\ r = ResultOf(row, hit.score, r.rank - 1)

\* C34 as stated: search during an in-flight add -- a search that runs after
\* an add has appended its vector and before that add has committed its row
\* either omits the new record or, when replacing, omits both the old and
\* the new version of it; it never raises and never returns a result whose
\* metadata belongs to another position than the hit
C34_SearchDuringAdd ==
    [][\A t \in Threads :
          SearchWhile(t, {"appended", "executed"}) =>
              LET name == Get(threads[t].call.gem_data, "name", "")
                  new == threads[t].vector_id
                  replacing == \E r \in gems : r.name = name
              IN /\ \/ new \notin ReturnedAt(name)
                    \/ replacing /\ ReturnedAt(name) = {}
                 /\ ~ret'.raised
                 /\ ResultsMatchHits]_vars

\* C34 amended: a search that runs after an add has appended its vector and
\* before it has executed its INSERT never returns the new version and
\* returns the old version of a record that is being replaced whenever the
\* old position is among the hits; a search that runs between the INSERT
\* and the commit reads through the same connection and returns the new
\* version whenever the new position is among the hits, and never the old
\* one; in both cases it does not raise and every result is the row of the
\* position of its hit
C34_SearchDuringAddAmended ==
    [][\A t \in Threads :
          /\ SearchWhile(t, {"appended"}) =>
                LET name == Get(threads[t].call.gem_data, "name", "")
                    old == { r.embedding_vector_id : r \in {x \in gems : x.name = name} }
                IN /\ ReturnedAt(name) = old \cap PositionsHit
                   /\ threads[t].vector_id \notin ReturnedAt(name)
                   /\ ~ret'.raised
                   /\ ResultsMatchHits
          /\ SearchWhile(t, {"executed"}) =>
                LET name == Get(threads[t].call.gem_data, "name", "")
                IN /\ ReturnedAt(name) = {threads[t].vector_id} \cap PositionsHit
                   /\ ~ret'.raised
                   /\ ResultsMatchHits]_vars

\* a search has just returned the new version of a record whose replacing
\* add has executed its INSERT and not committed: the committed row is the
\* old one still
C34_Witness ==
    /\ ret.op = "search"
    /\ ~overlapped
    /\ \E t \in Threads :
          /\ threads[t] # Outside
          /\ threads[t].at = "executed"
          /\ threads[t].replaced # -1
          /\ \E r \in gems :
                /\ r.name = Get(threads[t].call.gem_data, "name", "")
                /\ r.embedding_vector_id = threads[t].replaced
          /\ \E i \in 1..Len(ret.results) :
                /\ ret.results[i].name = Get(threads[t].call.gem_data, "name", "")
                /\ ret.results[i].description
                      = Get(threads[t].call.gem_data, "description", "")
                /\ ret.results[i].description
                      # (CHOOSE r \in gems :
                            r.name = Get(threads[t].call.gem_data, "name", "")).description

C36_PersistUnloaded ==
    [][(ret'.op = "save_index" /\ ~index.open) =>
          /\ index_file' = index_file
          /\ ret'.outcome = "skipped"
          /\ ~ret'.raised
          /\ UNCHANGED << index, gems, metadata_db, sqlite_sequence,
                          embedding_model, dimension >>]_vars

\* save_index has just returned on a new instance, without an index, over a
\* store whose index file holds two vectors: the file still holds them
C36_Witness ==
    /\ ret.op = "save_index"
    /\ ret.outcome = "skipped"
    /\ ~index.open
    /\ index_file.exists
    /\ Len(index_file.vectors) = 2

\* the step is an add that wrote its row and returned
AddReturns == pc = "insert" /\ ret'.op = "add_gem" /\ ~ret'.raised

\* C37: id assignment -- the ids returned by the successful adds on one
\* store are strictly increasing and never reused: the AUTOINCREMENT counter
\* never decreases, also across restarts, no row holds an id above it, and
\* every successful add returns an id above the counter it found, which is
\* the counter it leaves and the id of the row it wrote; an add that
\* replaces an existing name returns an id different from the previous one,
\* and afterwards no row has the previous id
C37_IdAssignment ==
    [][/\ sqlite_sequence' >= sqlite_sequence
       /\ \A r \in gems' : r.id <= sqlite_sequence'
       /\ AddReturns =>
             LET name == Get(pending.gem_data, "name", "")
                 previous == { r.id : r \in { x \in gems : x.name = name } }
             IN /\ ret'.id > sqlite_sequence
                /\ ret'.id = sqlite_sequence'
                /\ \A r \in gems : r.id < ret'.id
                /\ { r.name : r \in { x \in gems' : x.id = ret'.id } } = {name}
                /\ ret'.id \notin previous
                /\ \A r \in gems' : r.id \notin previous]_vars

\* a replacing add has just returned id 2 for the record whose row had id 1:
\* the table holds one row
C37_Witness ==
    /\ AddSucceeded
    /\ ret.replaced # -1
    /\ ret.id = 2
    /\ Cardinality(gems) = 1
    /\ \A r \in gems : r.id = 2

\* the positions of the in-memory index that no row references
Unreferenced == { p \in 0..(Len(index.vectors) - 1) : RowsAt(metadata_db, p) = {} }

\* C38: partial write on a failed upsert -- when the INSERT of an add fails
\* after the vector was appended (a name of None violates NOT NULL) the
\* error reaches the caller, the index keeps the vector the add appended, at
\* a position no row references, and the rows are unchanged; every later add
\* works (it returns an id and its row holds the position of its own vector)
\* and every later search works (it does not raise), returning the rows of
\* the hits that have one and skipping the unreferenced vector
C38_FailedUpsert ==
    [][/\ (pc = "insert" /\ Get(pending.gem_data, "name", "") = None) =>
             /\ ret'.op = "add_gem" /\ ret'.raised
             /\ pc' = "idle"
             /\ UNCHANGED << gems, metadata_db, sqlite_sequence, index >>
             /\ Len(index.vectors) = pending.vector_id + 1
             /\ pending.vector_id \in Unreferenced'
       /\ (pc = "insert" /\ Get(pending.gem_data, "name", "") # None) =>
             /\ ret'.op = "add_gem" /\ ~ret'.raised /\ ret'.id > 0
             /\ index' = index
             /\ { r.id : r \in RowsAt(gems', pending.vector_id) } = {ret'.id}
             /\ pending.vector_id = Len(index.vectors) - 1
       /\ ret'.op = "search" =>
             /\ ~ret'.raised
             /\ LET hits == FaissSearch(index.vectors, Embed(ret'.args.query),
                                        ret'.args.k)
                    with_row == { i \in 1..Len(hits) :
                                    hits[i].idx # -1
                                    /\ RowsAt(metadata_db, hits[i].idx) # {} }
                IN /\ { ret'.results[i].rank : i \in 1..Len(ret'.results) } = with_row
                   /\ Len(ret'.results) = Cardinality(with_row)
                   /\ \A i \in 1..Len(ret'.results) :
                         hits[ret'.results[i].rank].idx \notin Unreferenced]_vars

\* a search for two results has just returned the one record that was
\* added after a failed add: the vector of the failed add, at position 0,
\* was one of the two hits and has no row
C38_Witness ==
    /\ ret.op = "search"
    /\ ~ret.raised
    /\ Len(index.vectors) = 2
    /\ Unreferenced = {0}
    /\ sqlite_sequence = 1
    /\ Cardinality(gems) = 1
    /\ ret.args.k = 2
    /\ Len(ret.results) = 1

\* the ids of the list are 1..n in insertion order
IdsInOrder(listed) == \A i \in 1..Len(listed) : listed[i].id = i

\* C39: mock API ids -- after any sequence of POST /gems requests handled
\* one at a time the ids in the gem list are pairwise distinct and equal
\* 1..n in insertion order; each POST that is given a gem appends exactly one
\* gem, with id equal to the previous list length plus one, and answers with
\* it, no other request changes the list, and GET /gems/{id} returns the gem
\* created with that id, or an answer saying "Gem not found" without a gem
\* when no gem has it
C39_MockApiIds ==
    [][/\ IdsInOrder(MOCK_GEMS) /\ IdsInOrder(MOCK_GEMS')
       /\ \A i, j \in 1..Len(MOCK_GEMS') :
             i # j => MOCK_GEMS'[i].id # MOCK_GEMS'[j].id
       /\ (api_response'.method = "POST" /\ api_response'.gem # NoGem) =>
             /\ Len(MOCK_GEMS') = Len(MOCK_GEMS) + 1
             /\ SubSeq(MOCK_GEMS', 1, Len(MOCK_GEMS)) = MOCK_GEMS
             /\ MOCK_GEMS'[Len(MOCK_GEMS')] = api_response'.gem
             /\ api_response'.gem.id = Len(MOCK_GEMS) + 1
             /\ api_response'.status \in {200, 201}
       /\ (api_response'.method = "POST" /\ api_response'.gem = NoGem) =>
             MOCK_GEMS' = MOCK_GEMS /\ api_response'.status \in {400, 422}
       /\ api_response'.method = "GET" =>
             /\ MOCK_GEMS' = MOCK_GEMS
             /\ IF api_response'.gem_id \in 1..Len(MOCK_GEMS)
                THEN /\ api_response'.gem = MOCK_GEMS[api_response'.gem_id]
                     /\ api_response'.gem.id = api_response'.gem_id
                     /\ api_response'.status = 200
                     /\ api_response'.error = ""
                ELSE /\ api_response'.gem = NoGem
                     /\ api_response'.error = "Gem not found"]_vars

\* the FastAPI server was sent two gems, the second without a name, and has
\* just answered GET /gems/5 with that gem
C39_Witness ==
    /\ api_server = "mock_api"
    /\ Len(MOCK_GEMS) = 5
    /\ api_response.method = "GET"
    /\ api_response.gem_id = 5
    /\ api_response.gem = MOCK_GEMS[5]
    /\ api_response.gem.name = "unknown"

====
